---- MODULE Spec2Model ----
(***************************************************************************)
(* Model of get_vendor_summary.py: the SQL aggregation of                  *)
(* create_vendor_summary, the pandas post-processing of clean_data and the *)
(* __main__ block that runs query, clean and ingest on one connection.     *)
(*                                                                         *)
(* A table is a bag of rows (SQL tables are multisets; the result of the   *)
(* query does not depend on row order except among ties of ORDER BY,       *)
(* which are left nondeterministic).  A data frame is a sequence of rows,  *)
(* every cell of which is a Cell: null (None / NaN / pd.NA), a number n/d  *)
(* (integers have d = 1, quotients keep numerator and denominator), an     *)
(* infinity produced by a float division by zero, or a string (a sequence  *)
(* of characters).                                                         *)
(***************************************************************************)
EXTENDS Bags, FiniteSets, Integers, Sequences, TLC

VARIABLES schema_ok, purchases, purchase_prices, sales, vendor_invoice,
          vendor_sales_summary, conn, summary_df, clean_df, pc, error, log

vars == <<schema_ok, purchases, purchase_prices, sales, vendor_invoice,
          vendor_sales_summary, conn, summary_df, clean_df, pc, error, log>>

tables == <<schema_ok, purchases, purchase_prices, sales, vendor_invoice>>

(***************************************************************************)
(* Bound: the number of rows of the four base tables together.             *)
(***************************************************************************)
MaxRows == 4

(***************************************************************************)
(* Cells.                                                                  *)
(***************************************************************************)
Null == [k |-> "null", n |-> 0, d |-> 1, s |-> <<>>]

Num(x) == [k |-> "num", n |-> x, d |-> 1, s |-> <<>>]

Frac(a, b) == [k |-> "num", n |-> a, d |-> b, s |-> <<>>]

Inf == [k |-> "inf", n |-> 0, d |-> 1, s |-> <<>>]

Str(t) == [k |-> "str", n |-> 0, d |-> 1, s |-> t]

IsNull(c) == c.k = "null"

IsZero(c) == c.k = "num" /\ c.n = 0

(***************************************************************************)
(* The rows the base tables are drawn from: one base row per table and the *)
(* rows that differ from it in one column.                                 *)
(***************************************************************************)
PurchaseRow(v, name, b, desc, price, q, dl) ==
    [VendorNumber |-> v, VendorName |-> name, Brand |-> b, Description |-> desc,
     PurchasePrice |-> price, Quantity |-> q, Dollars |-> dl]

NameV == Str(<<" ", "v", " ">>)

DescD == Str(<<"d", " ">>)

PurchaseRows ==
    { PurchaseRow(1, NameV, 1, DescD, 10, 5, 50),
      PurchaseRow(2, NameV, 1, DescD, 10, 5, 50),
      PurchaseRow(1, Null,  1, DescD, 10, 5, 50),
      PurchaseRow(1, NameV, 2, DescD, 10, 5, 50),
      PurchaseRow(1, NameV, 1, Null,  10, 5, 50),
      PurchaseRow(1, NameV, 1, DescD, 0,  5, 50),
      PurchaseRow(1, NameV, 1, DescD, 20, 5, 50),
      PurchaseRow(1, NameV, 1, DescD, 10, 0, 50),
      PurchaseRow(1, NameV, 1, DescD, 10, 5, 0) }

PriceRows ==
    { [Brand |-> 1, Volume |-> 750,  Price |-> 12],
      [Brand |-> 2, Volume |-> 750,  Price |-> 12],
      [Brand |-> 1, Volume |-> 1000, Price |-> 12] }

SalesRow(v, b, dl) ==
    [VendorNo |-> v, Brand |-> b, SalesDollars |-> dl, SalesPrice |-> 12,
     SalesQuantity |-> 3, ExciseTax |-> 1]

SalesRows ==
    { SalesRow(1, 1, 60), SalesRow(2, 1, 60), SalesRow(1, 2, 60), SalesRow(1, 1, 0) }

InvoiceRows ==
    { [VendorNumber |-> 1, Freight |-> 3], [VendorNumber |-> 2, Freight |-> 4] }

BagsUpTo(D, N) ==
    UNION { { b \in [S -> 1..N] : BagCardinality(b) <= N } :
            S \in { T \in SUBSET D : Cardinality(T) <= N } }

(***************************************************************************)
(* SUM over the rows of a set, each weighted by its value under f.         *)
(***************************************************************************)
RECURSIVE SumF(_, _)
SumF(f, S) ==
    IF S = {} THEN 0
    ELSE LET x == CHOOSE y \in S : TRUE IN f[x] + SumF(f, S \ {x})

(***************************************************************************)
(* create_vendor_summary: the three common table expressions.              *)
(***************************************************************************)
FreightSummary(vi) ==
    { [VendorNumber |-> Num(v),
       FreightCost  |-> Num(SumF([r \in BagToSet(vi) |-> CopiesIn(r, vi) * r.Freight],
                                 { r \in BagToSet(vi) : r.VendorNumber = v }))] :
      v \in { r.VendorNumber : r \in BagToSet(vi) } }

\* Variant of WherePurchasePrice: the filter written as >= 0.
WherePurchasePrice_NonNegative(p1) == p1.PurchasePrice >= 0

\* WHERE p1.PurchasePrice > 0
WherePurchasePrice(p1) == p1.PurchasePrice > 0

\* FROM purchases p1 JOIN purchase_prices p2 ON p1.Brand = p2.Brand WHERE ...
PurchaseJoin(p, pp) ==
    { j \in BagToSet(p) \X BagToSet(pp) :
        j[1].Brand = j[2].Brand /\ WherePurchasePrice(j[1]) }

\* GROUP BY p1.VendorNumber, p1.VendorName, p1.Brand, p1.Description,
\*          p1.PurchasePrice, p2.Volume, p2.Price
GroupKey(j) ==
    [VendorNumber |-> j[1].VendorNumber, VendorName |-> j[1].VendorName,
     Brand |-> j[1].Brand, Description |-> j[1].Description,
     PurchasePrice |-> j[1].PurchasePrice, Volume |-> j[2].Volume,
     ActualPrice |-> j[2].Price]

PurchaseSummary(p, pp) ==
    LET J == PurchaseJoin(p, pp)
        copies == [j \in J |-> CopiesIn(j[1], p) * CopiesIn(j[2], pp)]
        G(g) == { j \in J : GroupKey(j) = g }
    IN { [VendorNumber |-> g.VendorNumber, VendorName |-> g.VendorName,
          Brand |-> g.Brand, Description |-> g.Description,
          PurchasePrice |-> g.PurchasePrice, Volume |-> g.Volume,
          ActualPrice |-> g.ActualPrice,
          TotalPurchaseQuantity |-> SumF([j \in J |-> copies[j] * j[1].Quantity], G(g)),
          TotalPurchaseDollars  |-> SumF([j \in J |-> copies[j] * j[1].Dollars], G(g))] :
         g \in { GroupKey(j) : j \in J } }

SalesSummary(s) ==
    LET R == BagToSet(s)
        G(v, b) == { r \in R : r.VendorNo = v /\ r.Brand = b }
        Tot(col, v, b) == Num(SumF([r \in R |-> CopiesIn(r, s) * r[col]], G(v, b)))
    IN { [VendorNo |-> Num(g[1]), Brand |-> Num(g[2]),
          TotalSalesDollars  |-> Tot("SalesDollars", g[1], g[2]),
          TotalSalesPrice    |-> Tot("SalesPrice", g[1], g[2]),
          TotalSalesQuantity |-> Tot("SalesQuantity", g[1], g[2]),
          TotalExciseTax     |-> Tot("ExciseTax", g[1], g[2])] :
         g \in { <<r.VendorNo, r.Brand>> : r \in R } }

(***************************************************************************)
(* The two LEFT JOINs: a purchase-side row is paired with every matching   *)
(* row of the right side, or with one all-null row when none matches.      *)
(***************************************************************************)
NullSales ==
    [VendorNo |-> Null, Brand |-> Null, TotalSalesDollars |-> Null,
     TotalSalesPrice |-> Null, TotalSalesQuantity |-> Null, TotalExciseTax |-> Null]

NullFreight == [VendorNumber |-> Null, FreightCost |-> Null]

\* Variant of OnSales: the join condition on Brand alone.
OnSales_BrandOnly(ps, ss) == Num(ps.Brand) = ss.Brand

\* ON ps.VendorNumber = ss.VendorNo AND ps.Brand = ss.Brand
OnSales(ps, ss) == Num(ps.VendorNumber) = ss.VendorNo /\ Num(ps.Brand) = ss.Brand

\* ON ps.VendorNumber = fs.VendorNumber
OnFreight(ps, fs) == Num(ps.VendorNumber) = fs.VendorNumber

\* Variant of LeftJoinSales: an inner JOIN.
LeftJoinSales_Inner(PS, SS) ==
    UNION { { <<ps, ss>> : ss \in { x \in SS : OnSales(ps, x) } } : ps \in PS }

LeftJoinSales(PS, SS) ==
    UNION { LET M == { ss \in SS : OnSales(ps, ss) }
            IN IF M = {} THEN { <<ps, NullSales>> } ELSE { <<ps, ss>> : ss \in M } :
            ps \in PS }

LeftJoinFreight(J, FS) ==
    UNION { LET M == { fs \in FS : OnFreight(j[1], fs) }
            IN IF M = {} THEN { <<j[1], j[2], NullFreight>> }
               ELSE { <<j[1], j[2], fs>> : fs \in M } :
            j \in J }

\* The final SELECT list.
SelectRow(j) ==
    [VendorNumber |-> Num(j[1].VendorNumber), VendorName |-> j[1].VendorName,
     Brand |-> Num(j[1].Brand), Description |-> j[1].Description,
     PurchasePrice |-> Num(j[1].PurchasePrice),
     ActualPrice |-> Num(j[1].ActualPrice), Volume |-> Num(j[1].Volume),
     TotalPurchaseQuantity |-> Num(j[1].TotalPurchaseQuantity),
     TotalPurchaseDollars  |-> Num(j[1].TotalPurchaseDollars),
     TotalSalesQuantity |-> j[2].TotalSalesQuantity,
     TotalSalesDollars  |-> j[2].TotalSalesDollars,
     TotalSalesPrice    |-> j[2].TotalSalesPrice,
     TotalExciseTax     |-> j[2].TotalExciseTax,
     FreightCost        |-> j[3].FreightCost]

\* Variant of OrderedBefore: ascending order.
OrderedBefore_Ascending(x, y) == x[1].TotalPurchaseDollars <= y[1].TotalPurchaseDollars

\* ORDER BY ps.TotalPurchaseDollars DESC: x may be output before y.
OrderedBefore(x, y) == x[1].TotalPurchaseDollars >= y[1].TotalPurchaseDollars

\* Every order of the joined rows that ORDER BY allows (ties in any order).
RECURSIVE OrderBy(_)
OrderBy(S) ==
    IF S = {} THEN { <<>> }
    ELSE UNION { { <<x>> \o t : t \in OrderBy(S \ {x}) } :
                 x \in { y \in S : \A z \in S : OrderedBefore(y, z) } }

Joined(p, pp, s, vi) ==
    LeftJoinFreight(LeftJoinSales(PurchaseSummary(p, pp), SalesSummary(s)),
                    FreightSummary(vi))

\* The data frames pd.read_sql_query may return for the given tables.
QueryResults(p, pp, s, vi) ==
    { [i \in 1..Len(q) |-> SelectRow(q[i])] : q \in OrderBy(Joined(p, pp, s, vi)) }

(***************************************************************************)
(* clean_data.                                                             *)
(***************************************************************************)
\* .astype('float64'): numbers keep their value, missing values stay missing
AsFloat64(c) == IF c.k = "num" THEN Frac(c.n, c.d) ELSE Null

\* df[col] = df[col].astype('float64')
AsTypeFloat64(df, col) == [i \in DOMAIN df |-> [df[i] EXCEPT ![col] = AsFloat64(@)]]

\* Variant of FillNa: the fill left out.
FillNa_Skipped(df) == df

\* df.fillna(0, inplace=True): every missing cell of every column becomes 0
FillNa(df) ==
    [i \in DOMAIN df |-> [col \in DOMAIN df[i] |->
        IF IsNull(df[i][col]) THEN Num(0) ELSE df[i][col]]]

Whitespace == { " " }

RECURSIVE LStrip(_)
LStrip(t) == IF t # <<>> /\ Head(t) \in Whitespace THEN LStrip(Tail(t)) ELSE t

RECURSIVE RStrip(_)
RStrip(t) ==
    IF t # <<>> /\ t[Len(t)] \in Whitespace THEN RStrip(SubSeq(t, 1, Len(t) - 1)) ELSE t

\* Series.str.strip() on one cell: a cell that is not a string becomes NaN
StrStrip(c) == IF c.k = "str" THEN Str(RStrip(LStrip(c.s))) ELSE Null

\* df[col] = df[col].str.strip()
StripCol(df, col) == [i \in DOMAIN df |-> [df[i] EXCEPT ![col] = StrStrip(@)]]

\* The .str accessor raises AttributeError on a non-empty column that holds
\* no string at all (inferred dtype "integer" after fillna(0)).
StrAccessorOk(df, col) == Len(df) = 0 \/ \E i \in DOMAIN df : df[i][col].k = "str"

\* .replace(0, pd.NA)
ReplaceZeroNA(c) == IF IsZero(c) THEN Null ELSE c

Sub(a, b) ==
    IF IsNull(a) \/ IsNull(b) THEN Null ELSE Frac(a.n * b.d - b.n * a.d, a.d * b.d)

\* float division: missing operands give a missing result, x/0 gives inf, 0/0 NaN
Div(a, b) ==
    IF IsNull(a) \/ IsNull(b) THEN Null
    ELSE IF b.n = 0 THEN (IF a.n = 0 THEN Null ELSE Inf)
    ELSE Frac(a.n * b.d, a.d * b.n)

Times100(a) == IF a.k = "num" THEN Frac(a.n * 100, a.d) ELSE a

\* lines 93-99: the calculated columns of one row
Calculated(r) ==
    LET GrossProfit == Sub(r.TotalSalesDollars, r.TotalPurchaseDollars)
    IN [GrossProfit |-> GrossProfit,
        ProfitMargin |-> Times100(Div(GrossProfit, ReplaceZeroNA(r.TotalSalesDollars))),
        SalestoPurchaseRatio |->
            Div(r.TotalSalesDollars, ReplaceZeroNA(r.TotalPurchaseDollars)),
        StockTurnover |->
            Div(r.TotalSalesQuantity, ReplaceZeroNA(r.TotalPurchaseQuantity))]

AddCalculated(df) == [i \in DOMAIN df |-> Calculated(df[i]) @@ df[i]]

\* lines 80-84: what clean_data has done to df when it reaches the .str calls
Filled(df) == FillNa(AsTypeFloat64(df, "Volume"))

\* clean_data raises at line 88 or at line 90
CleanRaises(df) ==
    \/ ~StrAccessorOk(Filled(df), "VendorName")
    \/ ~StrAccessorOk(Filled(df), "Description")

\* The frame as clean_data leaves it when it raises (df is changed in place).
CleanPartial(df) ==
    IF ~StrAccessorOk(Filled(df), "VendorName") THEN Filled(df)
    ELSE StripCol(Filled(df), "VendorName")

\* The frame clean_data returns.
clean_data(df) ==
    AddCalculated(StripCol(StripCol(Filled(df), "VendorName"), "Description"))

(***************************************************************************)
(* The run.                                                                *)
(***************************************************************************)
Init ==
    /\ schema_ok \in BOOLEAN
    /\ purchases \in BagsUpTo(PurchaseRows, IF schema_ok THEN MaxRows ELSE 0)
    /\ purchase_prices \in
         BagsUpTo(PriceRows, IF schema_ok THEN MaxRows - BagCardinality(purchases) ELSE 0)
    /\ sales \in
         BagsUpTo(SalesRows,
                  IF schema_ok
                  THEN MaxRows - BagCardinality(purchases) - BagCardinality(purchase_prices)
                  ELSE 0)
    /\ vendor_invoice \in
         BagsUpTo(InvoiceRows,
                  IF schema_ok
                  THEN MaxRows - BagCardinality(purchases) - BagCardinality(purchase_prices)
                       - BagCardinality(sales)
                  ELSE 0)
    /\ vendor_sales_summary = <<>>
    /\ conn = "open"
    /\ summary_df = <<>>
    /\ clean_df = <<>>
    /\ pc = "query"
    /\ error = "none"
    /\ log = <<>>

\* lines 108-110, the query succeeds
CreateVendorSummary ==
    /\ pc = "query"
    /\ schema_ok
    /\ summary_df' \in QueryResults(purchases, purchase_prices, sales, vendor_invoice)
    /\ log' = log \o <<"Creating Vendor Summary Table...", "Preview of summary">>
    /\ pc' = "clean"
    /\ UNCHANGED <<tables, vendor_sales_summary, conn, clean_df, error>>

\* lines 108-109, pd.read_sql_query raises: a base table is missing
CreateVendorSummaryFails ==
    /\ pc = "query"
    /\ ~schema_ok
    /\ log' = log \o <<"Creating Vendor Summary Table...">>
    /\ pc' = "aborted"
    /\ error' = "query"
    /\ UNCHANGED <<tables, vendor_sales_summary, conn, summary_df, clean_df>>

\* lines 112-114, clean_data returns; clean_df is the same object as summary_df
CleanData ==
    /\ pc = "clean"
    /\ ~CleanRaises(summary_df)
    /\ summary_df' = clean_data(summary_df)
    /\ clean_df' = clean_data(summary_df)
    /\ log' = log \o <<"Cleaning Data...", "Preview of cleaned data">>
    /\ pc' = "ingest"
    /\ UNCHANGED <<tables, vendor_sales_summary, conn, error>>

\* Variant of CleanDataFails: the exception is swallowed and the run goes on.
CleanDataFails_Swallowed ==
    /\ pc = "clean"
    /\ CleanRaises(summary_df)
    /\ summary_df' = CleanPartial(summary_df)
    /\ clean_df' = CleanPartial(summary_df)
    /\ log' = log \o <<"Cleaning Data...">>
    /\ pc' = "ingest"
    /\ error' = "clean"
    /\ UNCHANGED <<tables, vendor_sales_summary, conn>>

\* lines 112-113, clean_data raises
CleanDataFails ==
    /\ pc = "clean"
    /\ CleanRaises(summary_df)
    /\ summary_df' = CleanPartial(summary_df)
    /\ log' = log \o <<"Cleaning Data...">>
    /\ pc' = "aborted"
    /\ error' = "clean"
    /\ UNCHANGED <<tables, vendor_sales_summary, conn, clean_df>>

\* ingest_db(df, table_name, connection): the destination table holds the rows
ingest_db(df) == df

\* lines 116-118, ingest_db returns
IngestDb ==
    /\ pc = "ingest"
    /\ vendor_sales_summary' = ingest_db(clean_df)
    /\ log' = log \o <<"Ingesting data...", "Completed">>
    /\ pc' = "done"
    /\ UNCHANGED <<tables, conn, summary_df, clean_df, error>>

\* lines 116-117, ingest_db raises
IngestDbFails ==
    /\ pc = "ingest"
    /\ log' = log \o <<"Ingesting data...">>
    /\ pc' = "aborted"
    /\ error' = "ingest"
    /\ UNCHANGED <<tables, vendor_sales_summary, conn, summary_df, clean_df>>

Next ==
    \/ CreateVendorSummary
    \/ CreateVendorSummaryFails
    \/ CleanData
    \/ CleanDataFails
    \/ IngestDb
    \/ IngestDbFails

Spec == Init /\ [][Next]_vars

(***************************************************************************)
(* Properties.                                                             *)
(***************************************************************************)
\* create_vendor_summary has returned and clean_data has not been called.
Queried == pc = "clean"

\* clean_data has been called (it changes summary_df in place).
CleanCalled == pc \in {"ingest", "done"} \/ (pc = "aborted" /\ error \in {"clean", "ingest"})

\* clean_data has returned.
Cleaned == pc \in {"ingest", "done"} \/ (pc = "aborted" /\ error = "ingest")

Groups == PurchaseSummary(purchases, purchase_prices)

\* C1: after clean_data returns, no field of any output row is null.
C1_NoNullAfterClean ==
    Cleaned => \A i \in DOMAIN clean_df : \A col \in DOMAIN clean_df[i] :
                   ~IsNull(clean_df[i][col])

\* C2: every cleaned row whose TotalSalesDollars is 0 has ProfitMargin = 0 and
\* SalestoPurchaseRatio = 0.
C2_ZeroSalesZeroRatios ==
    Cleaned => \A i \in DOMAIN clean_df :
                   IsZero(clean_df[i].TotalSalesDollars)
                   => IsZero(clean_df[i].ProfitMargin)
                      /\ IsZero(clean_df[i].SalestoPurchaseRatio)

\* C3: the query returns as many rows as PurchaseSummary has groups: the left
\* joins neither drop nor duplicate a purchase-side row.
C3_RowCount ==
    (pc # "query" /\ error # "query") => Len(summary_df) = Cardinality(Groups)

C3_Witness ==
    /\ Queried
    /\ Len(summary_df) >= 2
    /\ \E i \in DOMAIN summary_df : ~IsNull(summary_df[i].TotalSalesDollars)
    /\ \E i \in DOMAIN summary_df : IsNull(summary_df[i].TotalSalesDollars)

SameVendorBrand(x, y) == x.VendorNumber = y.VendorNumber /\ x.Brand = y.Brand

SameGrain(x, y) ==
    /\ SameVendorBrand(x, y)
    /\ x.VendorName = y.VendorName
    /\ x.Description = y.Description
    /\ x.PurchasePrice = y.PurchasePrice
    /\ x.Volume = y.Volume
    /\ x.ActualPrice = y.ActualPrice

\* C4 as stated: no two rows returned by the query share (VendorNumber, Brand).
C4_UniqueVendorBrand ==
    Queried => \A i, j \in DOMAIN summary_df :
                   i # j => ~SameVendorBrand(summary_df[i], summary_df[j])

\* C4 as amended: no two rows returned by the query share (VendorNumber,
\* VendorName, Brand, Description, PurchasePrice, Volume, ActualPrice).
C4_UniqueGrain ==
    Queried => \A i, j \in DOMAIN summary_df :
                   i # j => ~SameGrain(summary_df[i], summary_df[j])

C4_Witness ==
    /\ Queried
    /\ \E i, j \in DOMAIN summary_df :
           i # j /\ SameVendorBrand(summary_df[i], summary_df[j])

NoSalesFor(r) ==
    \A x \in BagToSet(sales) :
        ~(Num(x.VendorNo) = r.VendorNumber /\ Num(x.Brand) = r.Brand)

NoFreightFor(r) ==
    \A x \in BagToSet(vendor_invoice) : Num(x.VendorNumber) # r.VendorNumber

\* The row r of a frame is the row of group g (the columns clean_data keeps).
RowOfGroup(r, g) ==
    /\ r.VendorNumber = Num(g.VendorNumber)
    /\ r.Brand = Num(g.Brand)
    /\ r.PurchasePrice = Num(g.PurchasePrice)
    /\ r.Volume = Num(g.Volume)
    /\ r.ActualPrice = Num(g.ActualPrice)
    /\ r.TotalPurchaseQuantity = Num(g.TotalPurchaseQuantity)
    /\ r.TotalPurchaseDollars = Num(g.TotalPurchaseDollars)

SalesFields(r) ==
    { r.TotalSalesQuantity, r.TotalSalesDollars, r.TotalSalesPrice, r.TotalExciseTax }

\* C5: a purchase group without sales (without freight) has a row in the query
\* result whose sales fields (FreightCost) are null; once clean_data has run
\* the row is still there and these fields are 0.
C5_UnmatchedKept ==
    /\ Queried =>
         /\ \A g \in Groups :
                \E i \in DOMAIN summary_df :
                    RowOfGroup(summary_df[i], g) /\ summary_df[i].VendorName = g.VendorName
         /\ \A i \in DOMAIN summary_df :
                /\ NoSalesFor(summary_df[i]) => SalesFields(summary_df[i]) = { Null }
                /\ NoFreightFor(summary_df[i]) => summary_df[i].FreightCost = Null
    /\ CleanCalled =>
         /\ Len(summary_df) = Cardinality(Groups)
         /\ \A g \in Groups : \E i \in DOMAIN summary_df : RowOfGroup(summary_df[i], g)
         /\ \A i \in DOMAIN summary_df :
                /\ NoSalesFor(summary_df[i]) => SalesFields(summary_df[i]) = { Num(0) }
                /\ NoFreightFor(summary_df[i]) => summary_df[i].FreightCost = Num(0)
    /\ Cleaned => clean_df = summary_df

C5_Witness ==
    /\ Cleaned
    /\ \E i \in DOMAIN clean_df : NoSalesFor(clean_df[i]) /\ NoFreightFor(clean_df[i])
    /\ \E i \in DOMAIN clean_df : ~NoSalesFor(clean_df[i])

RefBrands == { r.Brand : r \in BagToSet(purchase_prices) }

Contributes(r) == r.PurchasePrice > 0 /\ r.Brand \in RefBrands

ContributingPurchases ==
    [r \in { x \in BagToSet(purchases) : Contributes(x) } |-> purchases[r]]

\* The rows of the query over the contributing purchase lines alone.
ContributingJoined ==
    Joined(ContributingPurchases, purchase_prices, sales, vendor_invoice)

\* C6: the query returns the rows (as many, and the same ones) that it returns
\* over the purchase lines that have PurchasePrice > 0 and a Brand present in
\* purchase_prices; the other lines add no row and nothing to any sum.
C6_OnlyContributing ==
    Queried =>
        /\ Len(summary_df) = Cardinality(ContributingJoined)
        /\ { summary_df[i] : i \in DOMAIN summary_df }
             = { SelectRow(j) : j \in ContributingJoined }

C6_Witness ==
    /\ Queried
    /\ Len(summary_df) >= 1
    /\ \E r \in BagToSet(purchases) : r.PurchasePrice = 0 /\ r.Brand \in RefBrands
    /\ \E r \in BagToSet(purchases) : r.PurchasePrice > 0 /\ r.Brand \notin RefBrands

\* C7: the rows are in descending order of TotalPurchaseDollars.
C7_Descending ==
    (pc # "query" /\ error # "query") =>
        \A i \in 1..(Len(summary_df) - 1) :
            summary_df[i].TotalPurchaseDollars.n >= summary_df[i + 1].TotalPurchaseDollars.n

C7_Witness ==
    /\ Queried
    /\ Len(summary_df) >= 2
    /\ summary_df[1].TotalPurchaseDollars.n > summary_df[Len(summary_df)].TotalPurchaseDollars.n

\* C8: when the run has ended, normally or by a failure of any stage, the
\* connection has been closed.
C8_ConnectionReleased == pc \in {"done", "aborted"} => conn = "closed"

StageLines == {"Creating Vendor Summary Table...", "Cleaning Data...", "Ingesting data..."}

IsStageLine(l) == l \in StageLines

Stages == SelectSeq(log, IsStageLine)

\* C9: the stages start in the order query, clean, ingest, each at most once;
\* after a failure of the query or of clean_data the run has stopped and
\* ingest_db has not been and will not be called.
C9_SequentialNoRetry ==
    /\ Stages \in { <<>>,
                    <<"Creating Vendor Summary Table...">>,
                    <<"Creating Vendor Summary Table...", "Cleaning Data...">>,
                    <<"Creating Vendor Summary Table...", "Cleaning Data...",
                      "Ingesting data...">> }
    /\ error \in {"query", "clean"} =>
         /\ \A i \in DOMAIN log : log[i] # "Ingesting data..."
         /\ vendor_sales_summary = <<>>
         /\ pc = "aborted"
    /\ pc = "aborted" => error # "none" /\ ~ENABLED Next

C9_Witness == error = "clean" /\ Len(summary_df) >= 1

\* The purchase lines with PurchasePrice > 0 that share the row's VendorNumber,
\* VendorName, Brand, Description and PurchasePrice.
LinesOf(r) ==
    { x \in BagToSet(purchases) :
        /\ x.PurchasePrice > 0
        /\ Num(x.VendorNumber) = r.VendorNumber
        /\ x.VendorName = r.VendorName
        /\ Num(x.Brand) = r.Brand
        /\ x.Description = r.Description
        /\ Num(x.PurchasePrice) = r.PurchasePrice }

\* C10: the totals of every row of the query result are the sums of Quantity
\* and Dollars over these purchase lines, each line counted once.
C10_EachLineOnce ==
    Queried => \A i \in DOMAIN summary_df :
        /\ summary_df[i].TotalPurchaseQuantity =
             Num(SumF([x \in BagToSet(purchases) |-> purchases[x] * x.Quantity],
                      LinesOf(summary_df[i])))
        /\ summary_df[i].TotalPurchaseDollars =
             Num(SumF([x \in BagToSet(purchases) |-> purchases[x] * x.Dollars],
                      LinesOf(summary_df[i])))

====
